---- MODULE Spec2Model ----
(***************************************************************************)
(* Model of src/main.py: class TelegramLeaveBot.                           *)
(*                                                                         *)
(* The object has no mutable state of its own beyond the handler registry  *)
(* of its Application; what it does is send messages.  The model keeps     *)
(*   handlers : the handlers registered with self.application,             *)
(*   phase    : how far start_bot got,                                     *)
(*   runs     : the most recent handler invocations (oldest first), each   *)
(*              with the update it was given, the await it is suspended on *)
(*              and the sends it has issued so far.                        *)
(* Every `await` of a send is a suspension point: a handler invocation is  *)
(* one Begin step (the code up to its first await) followed by one Resume  *)
(* step per completed send, whose outcome the environment chooses.         *)
(* The handlers are methods of the object and are modelled as operations   *)
(* that may be invoked with an update whether or not start_bot has run.    *)
(***************************************************************************)
EXTENDS Naturals, Sequences, FiniteSets, TLC

VARIABLES handlers, phase, runs

vars == <<handlers, phase, runs>>

-----------------------------------------------------------------------------
(* Input domains: chats, users, statuses, updates.                         *)

\* self.group_chat_id, the one monitored group.
group_chat_id == "group"

\* Some other conversation the bot is also in.
other_chat_id == "other"

GroupChats == {group_chat_id, other_chat_id}

\* telegram.User objects; a user's id is also the id of the private chat with them.
Users == {"alice", "bob", "botty"}

is_bot(u) == u = "botty"

\* The empty string stands for username = None.
username(u) == IF u = "alice" THEN "alice_h" ELSE IF u = "botty" THEN "botty_bot" ELSE ""

first_name(u) == IF u = "alice" THEN "Alice" ELSE IF u = "bob" THEN "Bob" ELSE "Botty"

\* telegram.constants.ChatMemberStatus
OWNER == "creator"
ADMINISTRATOR == "administrator"
MEMBER == "member"
RESTRICTED == "restricted"
LEFT == "left"
BANNED == "kicked"

ChatMemberStatus == {OWNER, ADMINISTRATOR, MEMBER, RESTRICTED, LEFT, BANNED}

\* Longest member list of a members-added status message.
MaxMembers == 2

\* The outcomes of one send: delivered, refused by the recipient or by
\* Telegram (telegram.error.Forbidden, BadRequest), or a transient failure
\* (NetworkError, TimedOut).  The last two reach the code as an exception.
Outcomes == {"Sent", "Rejected", "Error"}

Failed(out) == out \in {"Rejected", "Error"}

\* One raw update.  shape tells which of Update.message.left_chat_member,
\* Update.message.new_chat_members, Update.chat_member, a /start command
\* message or Update.callback_query is set; unused fields are empty.
Upd(shape, chat, user, members, old, new, data) ==
    [shape |-> shape, chat |-> chat, user |-> user, members |-> members,
     old |-> old, new |-> new, data |-> data]

LeftUpdates ==
    {Upd("left_chat_member", c, u, <<>>, "", "", "") : c \in GroupChats, u \in Users}

\* Member lists without repetition, of length 1..n.
MemberLists(n) ==
    {s \in UNION {[1..k -> Users] : k \in 1..n} :
        \A i, j \in DOMAIN s : i # j => s[i] # s[j]}

NewUpdates(lists) ==
    {Upd("new_chat_members", c, "", l, "", "", "") : c \in GroupChats, l \in lists}

ChatMemberUpdates(pairs) ==
    {Upd("chat_member", c, u, <<>>, p[1], p[2], "") :
        c \in GroupChats, u \in Users, p \in pairs}

\* /start sent in the private chat with the bot, or in the group.
CommandUpdates(users) ==
    UNION {{Upd("command", c, u, <<>>, "", "", "") : c \in {u, group_chat_id}} :
              u \in users}

\* A press on an inline button under a message in the group.
CallbackUpdates(users) ==
    {Upd("callback_query", group_chat_id, u, <<>>, "", "", d) :
        u \in users, d \in {"start_chat", "hello"}}

\* Every update of the input domain.
Updates ==
    LeftUpdates \cup NewUpdates(MemberLists(MaxMembers))
        \cup ChatMemberUpdates(ChatMemberStatus \X ChatMemberStatus)
        \cup CommandUpdates(Users) \cup CallbackUpdates(Users)

\* A smaller sample of the same domain, for runs of two updates in a row.
SamplePairs ==
    {<<MEMBER, LEFT>>, <<ADMINISTRATOR, BANNED>>, <<MEMBER, ADMINISTRATOR>>}

SampleUpdates ==
    LeftUpdates \cup NewUpdates(MemberLists(1))
        \cup ChatMemberUpdates(SamplePairs)
        \cup CommandUpdates({"alice"}) \cup CallbackUpdates({"alice"})

-----------------------------------------------------------------------------
(* Sends and handler invocations.                                          *)

\* One outbound call on the Bot API.  kind names the call site, chat_id its
\* target, about the user whose data fills the text, mention the name the
\* text addresses.  The outcome is "InFlight" until the await returns.
Send(kind, chat_id, about, mention) ==
    [kind |-> kind, chat_id |-> chat_id, about |-> about, mention |-> mention,
     outcome |-> "InFlight"]

\* The await of the last send issued returns with outcome out.
Complete(sends, out) == [sends EXCEPT ![Len(sends)].outcome = out]

\* A handler invocation: pc is the await it is suspended on, or "returned"
\* (the coroutine ended normally) or "raised" (an exception left it).
Run(h, upd, pc, idx, sends) ==
    [h |-> h, upd |-> upd, pc |-> pc, idx |-> idx, sends |-> sends]

Finished(r) == r.pc \in {"returned", "raised"}

-----------------------------------------------------------------------------
(* handle_member_left                                                      *)

\* Variant: the username is always interpolated, also when there is none.
username_mention_AlwaysHandle(u) == <<"@", username(u)>>

\* The name the group fallback addresses: "@username" when the user has a
\* username, the first name otherwise.
username_mention(u) == IF username(u) # "" THEN <<"@", username(u)>> ELSE <<first_name(u)>>

\* Variant: the private message and the group mention are issued together.
MemberLeftBegin_BothAtOnce(upd) ==
    LET r == Run("handle_member_left", upd, "returned", 0, <<>>) IN
    IF upd.chat # group_chat_id THEN r
    ELSE IF upd.shape = "left_chat_member"
         THEN IF is_bot(upd.user) THEN r
              ELSE [r EXCEPT !.pc = "fallback",
                             !.sends = <<Send("direct", upd.user, upd.user,
                                              <<first_name(upd.user)>>),
                                         Send("fallback", group_chat_id, upd.user,
                                              username_mention(upd.user))>>]
         ELSE r

\* Variant: no private send is tried; the group mention is issued at once.
MemberLeftBegin_StraightToFallback(upd) ==
    LET r == Run("handle_member_left", upd, "returned", 0, <<>>) IN
    IF upd.chat # group_chat_id THEN r
    ELSE IF upd.shape = "left_chat_member"
         THEN IF is_bot(upd.user) THEN r
              ELSE [r EXCEPT !.pc = "fallback",
                             !.sends = <<Send("fallback", group_chat_id, upd.user,
                                              username_mention(upd.user))>>]
         ELSE r

\* Variant: the bot check is missing.
MemberLeftBegin_NoBotCheck(upd) ==
    LET r == Run("handle_member_left", upd, "returned", 0, <<>>) IN
    IF upd.chat # group_chat_id THEN r
    ELSE IF upd.shape = "left_chat_member"
         THEN [r EXCEPT !.pc = "direct",
                        !.sends = <<Send("direct", upd.user, upd.user,
                                         <<first_name(upd.user)>>)>>]
         ELSE r

\* Up to the first await: the group check, the left_chat_member check, the
\* bot check, then the private message is issued.
MemberLeftBegin(upd) ==
    LET r == Run("handle_member_left", upd, "returned", 0, <<>>) IN
    IF upd.chat # group_chat_id THEN r
    ELSE IF upd.shape = "left_chat_member"
         THEN IF is_bot(upd.user) THEN r
              ELSE [r EXCEPT !.pc = "direct",
                             !.sends = <<Send("direct", upd.user, upd.user,
                                              <<first_name(upd.user)>>)>>]
         ELSE r

\* Variant: a failed group message is sent again until it is delivered.
MemberLeftFallbackFailed_RetryUntilSent(r) ==
    [r EXCEPT !.pc = "fallback"]

\* Variant: the failure of the group message is not caught.
MemberLeftFallbackFailed_Raises(r) == [r EXCEPT !.pc = "raised"]

\* except Exception as e2: the failure of the group message is logged.
MemberLeftFallbackFailed(r) == [r EXCEPT !.pc = "returned"]

\* Variant: the group mention is issued whether or not the private message
\* was delivered.
MemberLeftDirectDone_AlwaysFallback(r, out) ==
    [r EXCEPT !.pc = "fallback",
              !.sends = Append(Complete(r.sends, out),
                               Send("fallback", group_chat_id, r.upd.user,
                                    username_mention(r.upd.user)))]

\* The private message's await returns: done on success; on any exception
\* the group mention is issued.
MemberLeftDirectDone(r, out) ==
    LET s == Complete(r.sends, out) IN
    IF out = "Sent" THEN [r EXCEPT !.pc = "returned", !.sends = s]
    ELSE [r EXCEPT !.pc = "fallback",
                   !.sends = Append(s, Send("fallback", group_chat_id, r.upd.user,
                                            username_mention(r.upd.user)))]

\* The group mention's await returns.
MemberLeftFallbackDone(r, out) ==
    LET q == [r EXCEPT !.sends = Complete(r.sends, out)] IN
    IF out = "Sent" THEN [q EXCEPT !.pc = "returned"] ELSE MemberLeftFallbackFailed(q)

MemberLeftResume(r, out) ==
    IF r.pc = "direct" THEN MemberLeftDirectDone(r, out) ELSE MemberLeftFallbackDone(r, out)

-----------------------------------------------------------------------------
(* handle_new_member                                                       *)

\* The index of the first non-bot member at or after i, 0 when there is none
\* (the loop's `continue` on bots).
RECURSIVE NextNonBot(_, _)
NextNonBot(members, i) ==
    IF i > Len(members) THEN 0
    ELSE IF is_bot(members[i]) THEN NextNonBot(members, i + 1)
    ELSE i

\* Variant: the welcome message is sent to the new member's private chat.
NewMemberLoop_PrivateWelcome(r, i) ==
    LET j == NextNonBot(r.upd.members, i) IN
    IF j = 0 THEN [r EXCEPT !.pc = "returned"]
    ELSE [r EXCEPT !.pc = "welcome", !.idx = j,
                   !.sends = Append(@, Send("welcome", r.upd.members[j], r.upd.members[j],
                                            <<first_name(r.upd.members[j])>>))]

\* The for loop from member i on, up to its next await: the welcome message
\* for the next non-bot member is issued, or the loop ends.
NewMemberLoop(r, i) ==
    LET j == NextNonBot(r.upd.members, i) IN
    IF j = 0 THEN [r EXCEPT !.pc = "returned"]
    ELSE [r EXCEPT !.pc = "welcome", !.idx = j,
                   !.sends = Append(@, Send("welcome", group_chat_id, r.upd.members[j],
                                            <<first_name(r.upd.members[j])>>))]

NewMemberBegin(upd) ==
    LET r == Run("handle_new_member", upd, "returned", 0, <<>>) IN
    IF upd.chat # group_chat_id THEN r
    ELSE IF upd.shape = "new_chat_members" /\ upd.members # <<>>
         THEN NewMemberLoop(r, 1)
         ELSE r

\* Variant: the failure of a welcome message is caught outside the loop and
\* ends it.
NewMemberResume_StopOnFailure(r, out) ==
    IF Failed(out) THEN [r EXCEPT !.pc = "returned", !.sends = Complete(r.sends, out)]
    ELSE NewMemberLoop([r EXCEPT !.sends = Complete(r.sends, out)], r.idx + 1)

\* A welcome message's await returns; a failure is logged inside the loop
\* body and the loop goes on with the next member.
NewMemberResume(r, out) ==
    NewMemberLoop([r EXCEPT !.sends = Complete(r.sends, out)], r.idx + 1)

-----------------------------------------------------------------------------
(* handle_start_command                                                    *)

\* Variant: the command is answered with the private leave message of the
\* departure handlers.
StartCommandBegin_LeaveMessage(upd) ==
    LET r == Run("handle_start_command", upd, "returned", 0, <<>>) IN
    IF upd.shape \in {"command", "left_chat_member", "new_chat_members"}
    THEN [r EXCEPT !.pc = "reply",
                   !.sends = <<Send("direct", upd.user, upd.user, <<first_name(upd.user)>>)>>]
    ELSE r

\* update.message.reply_text answers in the chat the command came from; with
\* no message in the update the attribute access raises and is caught.
StartCommandBegin(upd) ==
    LET r == Run("handle_start_command", upd, "returned", 0, <<>>) IN
    IF upd.shape \in {"command", "left_chat_member", "new_chat_members"}
    THEN [r EXCEPT !.pc = "reply",
                   !.sends = <<Send("reply", upd.chat, upd.user, <<first_name(upd.user)>>)>>]
    ELSE r

\* The reply's await returns; an exception is logged.
StartCommandResume(r, out) ==
    [r EXCEPT !.pc = "returned", !.sends = Complete(r.sends, out)]

-----------------------------------------------------------------------------
(* handle_callback_query: the callback block, then the chat-member block   *)

\* Variant: the conversation is not compared with the monitored group.
ChatMemberBlock_AnyChat(r) ==
    IF r.upd.shape # "chat_member"
    THEN [r EXCEPT !.pc = "returned"]
    ELSE IF r.upd.old \in {MEMBER, ADMINISTRATOR, OWNER} /\ r.upd.new \in {LEFT, BANNED}
         THEN IF is_bot(r.upd.user) THEN [r EXCEPT !.pc = "returned"]
              ELSE [r EXCEPT !.pc = "direct",
                             !.sends = Append(@, Send("direct", r.upd.user, r.upd.user,
                                                      <<first_name(r.upd.user)>>))]
         ELSE [r EXCEPT !.pc = "returned"]

\* Variant: a ban is not taken for a departure.
ChatMemberBlock_LeftOnly(r) ==
    IF r.upd.shape # "chat_member" \/ r.upd.chat # group_chat_id
    THEN [r EXCEPT !.pc = "returned"]
    ELSE IF r.upd.old \in {MEMBER, ADMINISTRATOR, OWNER} /\ r.upd.new \in {LEFT}
         THEN IF is_bot(r.upd.user) THEN [r EXCEPT !.pc = "returned"]
              ELSE [r EXCEPT !.pc = "direct",
                             !.sends = Append(@, Send("direct", r.upd.user, r.upd.user,
                                                      <<first_name(r.upd.user)>>))]
         ELSE [r EXCEPT !.pc = "returned"]

\* The second try block of handle_callback_query, up to its first await:
\* the chat_member and group check, the status transition check, the bot
\* check, then the private message is issued.
ChatMemberBlock(r) ==
    IF r.upd.shape # "chat_member" \/ r.upd.chat # group_chat_id
    THEN [r EXCEPT !.pc = "returned"]
    ELSE IF r.upd.old \in {MEMBER, ADMINISTRATOR, OWNER} /\ r.upd.new \in {LEFT, BANNED}
         THEN IF is_bot(r.upd.user) THEN [r EXCEPT !.pc = "returned"]
              ELSE [r EXCEPT !.pc = "direct",
                             !.sends = Append(@, Send("direct", r.upd.user, r.upd.user,
                                                      <<first_name(r.upd.user)>>))]
         ELSE [r EXCEPT !.pc = "returned"]

\* The first try block up to its first await.  Without a callback_query,
\* query is None and query.answer() raises AttributeError, which the first
\* except clause logs; control then enters the chat-member block.
CallbackQueryBegin(upd) ==
    LET r == Run("handle_callback_query", upd, "returned", 0, <<>>) IN
    IF upd.shape = "callback_query"
    THEN [r EXCEPT !.pc = "answer",
                   !.sends = <<Send("answer", upd.user, upd.user, <<>>)>>]
    ELSE ChatMemberBlock(r)

\* query.answer() returns: on success and data "start_chat" the button's
\* message is edited; on an exception, or other data, the first block ends.
CallbackAnswerDone(r, out) ==
    LET q == [r EXCEPT !.sends = Complete(r.sends, out)] IN
    IF out = "Sent" /\ r.upd.data = "start_chat"
    THEN [q EXCEPT !.pc = "edit",
                   !.sends = Append(@, Send("edit", r.upd.chat, r.upd.user,
                                            <<first_name(r.upd.user)>>))]
    ELSE ChatMemberBlock(q)

\* query.edit_message_text returns; an exception is logged.
CallbackEditDone(r, out) == ChatMemberBlock([r EXCEPT !.sends = Complete(r.sends, out)])

\* Variant: a failed group mention is sent again.
ChatMemberFallbackFailed_Retry(r) ==
    [r EXCEPT !.pc = "fallback",
              !.sends = Append(@, Send("fallback", group_chat_id, r.upd.user,
                                       username_mention(r.upd.user)))]

\* except Exception as e2 of the chat-member block.
ChatMemberFallbackFailed(r) == [r EXCEPT !.pc = "returned"]

\* The chat-member block's private message returns.
ChatMemberDirectDone(r, out) ==
    LET s == Complete(r.sends, out) IN
    IF out = "Sent" THEN [r EXCEPT !.pc = "returned", !.sends = s]
    ELSE [r EXCEPT !.pc = "fallback",
                   !.sends = Append(s, Send("fallback", group_chat_id, r.upd.user,
                                            username_mention(r.upd.user)))]

\* The chat-member block's group mention returns.
ChatMemberFallbackDone(r, out) ==
    LET q == [r EXCEPT !.sends = Complete(r.sends, out)] IN
    IF out = "Sent" THEN [q EXCEPT !.pc = "returned"] ELSE ChatMemberFallbackFailed(q)

CallbackQueryResume(r, out) ==
    CASE r.pc = "answer" -> CallbackAnswerDone(r, out)
      [] r.pc = "edit" -> CallbackEditDone(r, out)
      [] r.pc = "direct" -> ChatMemberDirectDone(r, out)
      [] OTHER -> ChatMemberFallbackDone(r, out)

-----------------------------------------------------------------------------
(* setup_handlers and start_bot                                            *)

\* The methods class TelegramLeaveBot defines.
Methods ==
    {"handle_member_left", "handle_new_member", "handle_start_command",
     "handle_callback_query", "setup_handlers", "start_bot"}

\* The add_handler calls of setup_handlers, in order: the handler class, the
\* update shape its filter accepts, and the attribute of self it names.
Registrations ==
    << [type |-> "MessageHandler", shape |-> "new_chat_members",
        callback |-> "handle_new_member"],
       [type |-> "CommandHandler", shape |-> "command",
        callback |-> "handle_start_command"],
       [type |-> "CallbackQueryHandler", shape |-> "callback_query",
        callback |-> "handle_callback_query"],
       [type |-> "MessageHandler", shape |-> "left_chat_member",
        callback |-> "handle_member_left"],
       [type |-> "ChatMemberHandler", shape |-> "chat_member",
        callback |-> "handle_chat_member_update"] >>

\* Naming an attribute the class does not define raises AttributeError.
SetupRaises == \E i \in DOMAIN Registrations : Registrations[i].callback \notin Methods

\* The handlers setup_handlers adds before it returns or raises.
Registered ==
    LET bad == {i \in DOMAIN Registrations : Registrations[i].callback \notin Methods}
        n == IF bad = {} THEN Len(Registrations)
             ELSE (CHOOSE i \in bad : \A j \in bad : i <= j) - 1
    IN SubSeq(Registrations, 1, n)

\* start_polling(allowed_updates=["message", "chat_member"])
allowed_updates == {"message", "chat_member"}

UpdateType(upd) ==
    IF upd.shape \in {"left_chat_member", "new_chat_members", "command"} THEN "message"
    ELSE upd.shape

\* The callback the application hands upd to once it is polling: the first
\* registered handler whose filter accepts it; "none" when the update type is
\* not fetched or no handler accepts it.
Route(hs, upd) ==
    LET ok == {i \in DOMAIN hs : hs[i].shape = upd.shape} IN
    IF UpdateType(upd) \notin allowed_updates \/ ok = {} THEN "none"
    ELSE hs[CHOOSE i \in ok : \A j \in ok : i <= j].callback

\* start_bot: setup_handlers, then initialize, start and start_polling.  An
\* exception of setup_handlers leaves start_bot before the application is
\* initialized; main logs it and re-raises.
StartBot ==
    /\ phase = "constructed"
    /\ handlers' = handlers \o Registered
    /\ phase' = IF SetupRaises THEN "failed" ELSE "polling"
    /\ UNCHANGED runs

-----------------------------------------------------------------------------
(* The state machine                                                       *)

Init ==
    /\ handlers = <<>>
    /\ phase = "constructed"
    /\ runs = <<>>

\* The invocations kept when a new one begins: the previous one, or none.
Kept(keep) == IF keep /\ runs # <<>> THEN <<runs[Len(runs)]>> ELSE <<>>

\* No handler invocation is suspended: updates are handled one at a time.
Idle == \A i \in DOMAIN runs : Finished(runs[i])

\* A left-member status message is handed to handle_member_left.
CallMemberLeft(pool, keep) ==
    /\ Idle
    /\ \E upd \in pool :
          /\ upd.shape = "left_chat_member"
          /\ runs' = Append(Kept(keep), MemberLeftBegin(upd))
    /\ UNCHANGED <<handlers, phase>>

\* A members-added status message is handed to handle_new_member.
CallNewMember(pool, keep) ==
    /\ Idle
    /\ \E upd \in pool :
          /\ upd.shape = "new_chat_members"
          /\ runs' = Append(Kept(keep), NewMemberBegin(upd))
    /\ UNCHANGED <<handlers, phase>>

\* A /start command message is handed to handle_start_command.
CallStartCommand(pool, keep) ==
    /\ Idle
    /\ \E upd \in pool :
          /\ upd.shape = "command"
          /\ runs' = Append(Kept(keep), StartCommandBegin(upd))
    /\ UNCHANGED <<handlers, phase>>

\* A callback query, or a membership-transition update, is handed to
\* handle_callback_query, whose body holds the chat-member block.
CallCallbackQuery(pool, keep) ==
    /\ Idle
    /\ \E upd \in pool :
          /\ upd.shape \in {"callback_query", "chat_member"}
          /\ runs' = Append(Kept(keep), CallbackQueryBegin(upd))
    /\ UNCHANGED <<handlers, phase>>

\* The send a handler invocation awaits returns with some outcome, and the
\* handler runs on to its next await or to its end.
Resume(r, out) ==
    CASE r.h = "handle_member_left" -> MemberLeftResume(r, out)
      [] r.h = "handle_new_member" -> NewMemberResume(r, out)
      [] r.h = "handle_start_command" -> StartCommandResume(r, out)
      [] OTHER -> CallbackQueryResume(r, out)

SendReturns(h) ==
    /\ \E i \in DOMAIN runs, out \in Outcomes :
          /\ runs[i].h = h
          /\ ~Finished(runs[i])
          /\ runs' = [runs EXCEPT ![i] = Resume(runs[i], out)]
    /\ UNCHANGED <<handlers, phase>>

MemberLeftSendReturns == SendReturns("handle_member_left")
NewMemberSendReturns == SendReturns("handle_new_member")
StartCommandSendReturns == SendReturns("handle_start_command")
CallbackQuerySendReturns == SendReturns("handle_callback_query")

Returns ==
    \/ MemberLeftSendReturns
    \/ NewMemberSendReturns
    \/ StartCommandSendReturns
    \/ CallbackQuerySendReturns

\* One update at a time over the whole input domain; only the current
\* invocation is kept.
Next ==
    \/ StartBot
    \/ CallMemberLeft(Updates, FALSE)
    \/ CallNewMember(Updates, FALSE)
    \/ CallStartCommand(Updates, FALSE)
    \/ CallCallbackQuery(Updates, FALSE)
    \/ Returns

Spec == Init /\ [][Next]_vars

\* Two updates in a row over the sample domain; the previous invocation is
\* kept next to the current one.
NextPair ==
    \/ StartBot
    \/ CallMemberLeft(SampleUpdates, TRUE)
    \/ CallNewMember(SampleUpdates, TRUE)
    \/ CallStartCommand(SampleUpdates, TRUE)
    \/ CallCallbackQuery(SampleUpdates, TRUE)
    \/ Returns

SpecPair == Init /\ [][NextPair]_vars

\* Every awaited send returns or raises in the end (each network call has a
\* timeout), and the event loop then resumes the coroutine awaiting it.
SpecLive == Init /\ [][Next]_vars /\ WF_vars(Returns)

\* The handlers are coroutines: scheduled as separate tasks, one may begin
\* while the previous one is suspended at an await.  Of the invocations
\* observed, the older one has ended before a third begins.
MayBegin == Len(runs) = 2 => Finished(runs[1])

\* handle_member_left begins as a task of its own.
SpawnMemberLeft(pool) ==
    /\ MayBegin
    /\ \E upd \in pool :
          /\ upd.shape = "left_chat_member"
          /\ runs' = Append(Kept(TRUE), MemberLeftBegin(upd))
    /\ UNCHANGED <<handlers, phase>>

\* handle_callback_query, with its chat-member block, begins as a task of
\* its own.
SpawnCallbackQuery(pool) ==
    /\ MayBegin
    /\ \E upd \in pool :
          /\ upd.shape \in {"callback_query", "chat_member"}
          /\ runs' = Append(Kept(TRUE), CallbackQueryBegin(upd))
    /\ UNCHANGED <<handlers, phase>>

\* The departure reports of the sample domain, on both channels.
DepartureUpdates == LeftUpdates \cup ChatMemberUpdates(SamplePairs)

\* The two departure handlers running concurrently, interleaved at their
\* awaits.
NextConc ==
    \/ StartBot
    \/ SpawnMemberLeft(DepartureUpdates)
    \/ SpawnCallbackQuery(DepartureUpdates)
    \/ MemberLeftSendReturns
    \/ CallbackQuerySendReturns

SpecConc == Init /\ [][NextConc]_vars

-----------------------------------------------------------------------------
(* Vocabulary of the properties                                            *)

\* The positions of r's sends of one kind.
SendsOf(r, kind) == {k \in DOMAIN r.sends : r.sends[k].kind = kind}

\* r issued a leave notification: a private leave message or a group mention.
Dispatched(r) == SendsOf(r, "direct") # {} \/ SendsOf(r, "fallback") # {}

\* upd reports on the status-message channel that non-bot u left the group.
StatusLeft(upd, u) ==
    /\ upd.shape = "left_chat_member"
    /\ upd.chat = group_chat_id
    /\ upd.user = u
    /\ ~is_bot(u)

\* upd reports on the transition channel that non-bot u left the group.
TransitionLeft(upd, u) ==
    /\ upd.shape = "chat_member"
    /\ upd.chat = group_chat_id
    /\ upd.user = u
    /\ ~is_bot(u)
    /\ upd.old \in {OWNER, ADMINISTRATOR, MEMBER}
    /\ upd.new \in {LEFT, BANNED}

\* The users a membership update is about.
Subjects(upd) ==
    IF upd.shape = "new_chat_members" THEN {upd.members[k] : k \in DOMAIN upd.members}
    ELSE {upd.user}

MembershipShapes == {"left_chat_member", "new_chat_members", "chat_member"}

\* Some send of r ended in an exception.
HadFailure(r) == \E k \in DOMAIN r.sends : Failed(r.sends[k].outcome)

-----------------------------------------------------------------------------
(* C1 *)

\* C1: a departure of a non-bot user reported on both channels, one report
\* after the other, gets exactly one private send attempt over the two
\* handler invocations.
C1_OneDispatchPerDeparture ==
    \A u \in Users :
        (/\ Len(runs) = 2
         /\ Finished(runs[1]) /\ Finished(runs[2])
         /\ \/ StatusLeft(runs[1].upd, u) /\ TransitionLeft(runs[2].upd, u)
            \/ TransitionLeft(runs[1].upd, u) /\ StatusLeft(runs[2].upd, u))
        => Cardinality(SendsOf(runs[1], "direct")) + Cardinality(SendsOf(runs[2], "direct")) = 1

-----------------------------------------------------------------------------
(* C2 *)

\* C2: the same status-message update handed to the same handler twice in a
\* row causes no send the second time.
C2_RedeliveryIdempotent ==
    (/\ Len(runs) = 2
     /\ runs[1].h = runs[2].h
     /\ runs[1].upd = runs[2].upd
     /\ runs[1].upd.shape \in {"left_chat_member", "new_chat_members"})
    => runs[2].sends = <<>>

-----------------------------------------------------------------------------
(* C3 *)

\* C3: no send of a membership handler is about a bot account, and a
\* membership update whose subjects are all bots causes no send at all.
C3_NoSendForBots ==
    \A i \in DOMAIN runs :
        LET r == runs[i] IN
        r.upd.shape \in MembershipShapes =>
            /\ \A k \in DOMAIN r.sends : ~is_bot(r.sends[k].about)
            /\ (\A u \in Subjects(r.upd) : is_bot(u)) => r.sends = <<>>

\* A bot's departure from the monitored group has been handled on the
\* transition channel.
C3_Witness ==
    \E i \in DOMAIN runs :
        /\ Finished(runs[i])
        /\ runs[i].upd.shape = "chat_member"
        /\ runs[i].upd.chat = group_chat_id
        /\ is_bot(runs[i].upd.user)
        /\ runs[i].upd.old = MEMBER /\ runs[i].upd.new = LEFT

-----------------------------------------------------------------------------
(* C4 *)

\* C4: an invocation whose private send succeeded sends no group fallback.
C4_NoFallbackAfterDirectSent ==
    \A i \in DOMAIN runs :
        (\E k \in SendsOf(runs[i], "direct") : runs[i].sends[k].outcome = "Sent")
            => SendsOf(runs[i], "fallback") = {}

\* A status-message departure whose private send succeeded has been handled.
C4_Witness ==
    \E i \in DOMAIN runs :
        /\ Finished(runs[i])
        /\ runs[i].h = "handle_member_left"
        /\ \E k \in SendsOf(runs[i], "direct") : runs[i].sends[k].outcome = "Sent"

-----------------------------------------------------------------------------
(* C5 *)

\* C5: an invocation whose private send failed (Rejected or Error) makes
\* exactly one private send and exactly one group fallback, whatever the
\* fallback's own outcome, and the fallback has completed when it ends.
C5_OneFallbackOnFailure ==
    \A i \in DOMAIN runs :
        LET r == runs[i] IN
        (\E k \in SendsOf(r, "direct") : Failed(r.sends[k].outcome)) =>
            /\ Cardinality(SendsOf(r, "direct")) = 1
            /\ Cardinality(SendsOf(r, "fallback")) = 1
            /\ \A k \in SendsOf(r, "fallback") :
                  /\ r.sends[k].chat_id = group_chat_id
                  /\ Finished(r) => r.sends[k].outcome # "InFlight"

\* A transition-channel departure has been handled whose private send
\* failed and whose fallback failed too.
C5_Witness ==
    \E i \in DOMAIN runs :
        /\ Finished(runs[i])
        /\ runs[i].upd.shape = "chat_member"
        /\ \E k \in SendsOf(runs[i], "direct") : runs[i].sends[k].outcome = "Error"
        /\ \E k \in SendsOf(runs[i], "fallback") : runs[i].sends[k].outcome = "Rejected"

-----------------------------------------------------------------------------
(* C6 *)

\* C6: handling a membership update of a conversation other than the
\* monitored group sends nothing, ends at once and changes neither the
\* handler registry nor the start-up phase.
C6_OtherChatInert ==
    [][\A i \in DOMAIN runs' :
          (runs'[i].upd.shape \in MembershipShapes /\ runs'[i].upd.chat # group_chat_id)
              => /\ runs'[i].sends = <<>>
                 /\ runs'[i].pc = "returned"
                 /\ runs' # runs => (handlers' = handlers /\ phase' = phase)]_vars

\* A departure in the other conversation has been handled on the transition
\* channel.
C6_Witness ==
    \E i \in DOMAIN runs :
        /\ Finished(runs[i])
        /\ runs[i].upd.shape = "chat_member"
        /\ runs[i].upd.chat = other_chat_id
        /\ ~is_bot(runs[i].upd.user)
        /\ runs[i].upd.old = MEMBER /\ runs[i].upd.new = LEFT

-----------------------------------------------------------------------------
(* C7 *)

\* C7: once start_bot has run, the bot is polling and every departure
\* reported by a membership-transition update is routed to a handler.
C7_BothChannelsLive ==
    phase # "constructed" =>
        /\ phase = "polling"
        /\ \A upd \in Updates, u \in Users :
              TransitionLeft(upd, u) => Route(handlers, upd) # "none"

-----------------------------------------------------------------------------
(* C8 *)

\* C8: for a membership-transition update in the monitored group, a leave
\* notification is issued if and only if the old status is Owner,
\* Administrator or Member, the new status is Left or Banned and the user is
\* not a bot; otherwise nothing is sent.
C8_LeftIffTransition ==
    \A i \in DOMAIN runs :
        LET r == runs[i] IN
        (r.upd.shape = "chat_member" /\ r.upd.chat = group_chat_id) =>
            IF /\ r.upd.old \in {OWNER, ADMINISTRATOR, MEMBER}
               /\ r.upd.new \in {LEFT, BANNED}
               /\ ~is_bot(r.upd.user)
            THEN /\ r.sends # <<>>
                 /\ r.sends[1].kind = "direct"
                 /\ r.sends[1].chat_id = r.upd.user
            ELSE r.sends = <<>>

\* An owner's ban has been handled and notified, the last of the six
\* departing transitions.
C8_Witness ==
    \E i \in DOMAIN runs :
        /\ Finished(runs[i])
        /\ runs[i].upd.shape = "chat_member"
        /\ runs[i].upd.chat = group_chat_id
        /\ runs[i].upd.old = OWNER /\ runs[i].upd.new = BANNED
        /\ SendsOf(runs[i], "direct") # {}

-----------------------------------------------------------------------------
(* C9 *)

\* The updates whose handling issues at least one send.
ExpectsSend(upd) ==
    \/ \E u \in Users : StatusLeft(upd, u) \/ TransitionLeft(upd, u)
    \/ /\ upd.shape = "new_chat_members"
       /\ upd.chat = group_chat_id
       /\ \E u \in Subjects(upd) : ~is_bot(u)
    \/ upd.shape \in {"command", "callback_query"}

\* C9: no handler invocation ends by raising, and an update that follows an
\* invocation in which a send failed is still handled: it issues its sends
\* exactly when its own content calls for them.
C9_NoFailurePropagates ==
    /\ \A i \in DOMAIN runs : runs[i].pc # "raised"
    /\ (Len(runs) = 2 /\ HadFailure(runs[1])) =>
          (runs[2].sends # <<>> <=> ExpectsSend(runs[2].upd))

\* After a departure whose private send and fallback both failed, the next
\* departure has been handled and its private send delivered.
C9_Witness ==
    /\ Len(runs) = 2
    /\ runs[1].h = "handle_member_left"
    /\ \E k \in SendsOf(runs[1], "fallback") : Failed(runs[1].sends[k].outcome)
    /\ Finished(runs[2])
    /\ \E k \in SendsOf(runs[2], "direct") : runs[2].sends[k].outcome = "Sent"

-----------------------------------------------------------------------------
(* C11 *)

\* C11: when the status-message handler and the transition handler of the
\* same departure of a non-bot user run concurrently, exactly one of them
\* proceeds to a private send: never two private sends to that user.
C11_OneProceedsPastStart ==
    \A u \in Users :
        (/\ Len(runs) = 2
         /\ \/ StatusLeft(runs[1].upd, u) /\ TransitionLeft(runs[2].upd, u)
            \/ TransitionLeft(runs[1].upd, u) /\ StatusLeft(runs[2].upd, u))
        => /\ SendsOf(runs[1], "direct") = {} \/ SendsOf(runs[2], "direct") = {}
           /\ SendsOf(runs[1], "direct") # {} \/ SendsOf(runs[2], "direct") # {}

-----------------------------------------------------------------------------
(* C12 *)

\* C12: within one dispatch, a group fallback is issued only right after
\* the private send to that user has completed with a failure, and an
\* invocation never has two sends in flight.
C12_FallbackAfterFailedDirect ==
    \A i \in DOMAIN runs :
        LET r == runs[i] IN
        /\ \A k \in SendsOf(r, "fallback") :
              /\ k > 1
              /\ r.sends[k - 1].kind = "direct"
              /\ r.sends[k - 1].chat_id = r.sends[k].about
              /\ Failed(r.sends[k - 1].outcome)
        /\ \A j, k \in DOMAIN r.sends :
              (r.sends[j].outcome = "InFlight" /\ r.sends[k].outcome = "InFlight") => j = k

\* A group fallback is in flight while another handler invocation is still
\* suspended at its own private send.
C12_Witness ==
    /\ Len(runs) = 2
    /\ runs[1].pc = "fallback"
    /\ runs[2].pc = "direct"
    /\ \E k \in SendsOf(runs[1], "fallback") : runs[1].sends[k].outcome = "InFlight"

-----------------------------------------------------------------------------
(* C13 *)

\* A dispatch is under way: an invocation that issued a leave notification
\* has not ended.
InDispatch == \E i \in DOMAIN runs : Dispatched(runs[i]) /\ ~Finished(runs[i])

-----------------------------------------------------------------------------
(* C14 *)

\* C14: every report of a non-bot user's departure from the monitored group
\* begins with a private send to that user, whatever was handled before it
\* (a /start of that user or none).
C14_DirectAlwaysAttempted ==
    \A i \in DOMAIN runs : \A u \in Users :
        (StatusLeft(runs[i].upd, u) \/ TransitionLeft(runs[i].upd, u)) =>
            /\ runs[i].sends # <<>>
            /\ runs[i].sends[1].kind = "direct"
            /\ runs[i].sends[1].chat_id = u

\* The very first update handled is the departure of a user who never sent
\* /start, and the private send was tried and rejected.
C14_Witness ==
    /\ Len(runs) = 1
    /\ StatusLeft(runs[1].upd, "bob")
    /\ runs[1].sends # <<>>
    /\ runs[1].sends[1].outcome = "Rejected"

-----------------------------------------------------------------------------
(* C15 *)

NotBot(u) == ~is_bot(u)

\* C15: handling a members-added message of the monitored group sends the
\* group one invitation per non-bot member listed, in list order, and none
\* for a bot; each is sent once whatever its outcome, and all have been sent
\* when the handler ends.
C15_OneInvitationPerMember ==
    \A i \in DOMAIN runs :
        LET r == runs[i]
            invited == SelectSeq(r.upd.members, NotBot)
        IN (r.upd.shape = "new_chat_members" /\ r.upd.chat = group_chat_id) =>
              /\ Len(r.sends) <= Len(invited)
              /\ \A k \in DOMAIN r.sends :
                    /\ r.sends[k].kind = "welcome"
                    /\ r.sends[k].about = invited[k]
                    /\ r.sends[k].chat_id = group_chat_id
              /\ Finished(r) => Len(r.sends) = Len(invited)

\* Two members were added; the first one's invitation failed and the second
\* one's was still sent.
C15_Witness ==
    \E i \in DOMAIN runs :
        /\ Finished(runs[i])
        /\ runs[i].upd.shape = "new_chat_members"
        /\ Len(runs[i].sends) = 2
        /\ Failed(runs[i].sends[1].outcome)
        /\ runs[i].sends[2].outcome = "Sent"

-----------------------------------------------------------------------------
(* C16 *)

\* C16: every group fallback goes to the monitored group and addresses the
\* user of the update being handled: by "@" and the username when the user
\* has one, by the first name otherwise.
C16_FallbackAddressesDeparted ==
    \A i \in DOMAIN runs :
        LET r == runs[i] IN
        \A k \in SendsOf(r, "fallback") :
            /\ r.sends[k].chat_id = group_chat_id
            /\ r.sends[k].about = r.upd.user
            /\ r.sends[k - 1].chat_id = r.upd.user
            /\ IF username(r.upd.user) # ""
               THEN r.sends[k].mention = <<"@", username(r.upd.user)>>
               ELSE r.sends[k].mention = <<first_name(r.upd.user)>>

\* The fallback for a user without a username has been sent, on the
\* status-message channel.
C16_Witness ==
    \E i \in DOMAIN runs :
        /\ runs[i].h = "handle_member_left"
        /\ username(runs[i].upd.user) = ""
        /\ \E k \in SendsOf(runs[i], "fallback") : runs[i].sends[k].outcome = "Sent"

-----------------------------------------------------------------------------
(* C17 *)

\* C17: handling a /start command or a callback query issues no leave
\* notification: its sends are the reply, the callback answer and the
\* message edit only.
C17_OptInSendsNoLeaveNotice ==
    \A i \in DOMAIN runs :
        LET r == runs[i] IN
        r.upd.shape \in {"command", "callback_query"} =>
            /\ ~Dispatched(r)
            /\ \A k \in DOMAIN r.sends : r.sends[k].kind \in {"reply", "answer", "edit"}

\* A "start_chat" button press has been handled to the end, through the
\* chat-member block that follows the callback block.
C17_Witness ==
    \E i \in DOMAIN runs :
        /\ Finished(runs[i])
        /\ runs[i].upd.shape = "callback_query"
        /\ \E k \in SendsOf(runs[i], "edit") : runs[i].sends[k].outcome = "Sent"

-----------------------------------------------------------------------------
(* C18 *)

\* C18: every send made while handling a membership update is a private
\* leave message to the update's own user, or a fallback or welcome message
\* to the monitored group; nothing goes to any other chat or user.
C18_SendsOnlyToGroupOrSubject ==
    \A i \in DOMAIN runs :
        LET r == runs[i] IN
        r.upd.shape \in MembershipShapes =>
            \A k \in DOMAIN r.sends :
                /\ r.sends[k].kind \in {"direct", "fallback", "welcome"}
                /\ r.sends[k].kind = "direct" =>
                      (r.sends[k].chat_id = r.upd.user /\ r.upd.user \in Subjects(r.upd))
                /\ r.sends[k].kind \in {"fallback", "welcome"} =>
                      r.sends[k].chat_id = group_chat_id
                /\ r.sends[k].chat_id # other_chat_id

\* A transition-channel departure has been handled with both a private
\* send and a delivered group fallback.
C18_Witness ==
    \E i \in DOMAIN runs :
        /\ Finished(runs[i])
        /\ runs[i].upd.shape = "chat_member"
        /\ SendsOf(runs[i], "direct") # {}
        /\ \E k \in SendsOf(runs[i], "fallback") : runs[i].sends[k].outcome = "Sent"

====
